---- MODULE Spec2Model ----
(***************************************************************************)
(* forge-npm-pkg: the scaffolding CLI (program.action, createProject),     *)
(* the package-name validator and the package.json generator.              *)
(*                                                                         *)
(* Strings that the code only tests for truthiness or copies are strings;  *)
(* a package name is a sequence of one-character strings, because the      *)
(* validator looks at its characters.  A JavaScript undefined value of a   *)
(* string variable is the value Undefined.                                 *)
(***************************************************************************)
EXTENDS Integers, Sequences, FiniteSets, TLC

VARIABLES
    pc,          \* position of program.action (or of the function under test)
    flags,       \* command-line flags as typed
    argName,     \* positional [package-name]; <<>> when not supplied
    finalPackageName,
    typed,       \* last value submitted to the package-name text prompt
    nameError,   \* result of validatePackageName for `typed`
    targetExists,\* existsSync(targetDir) as read by the run: "unknown", "yes", "no"
    config,      \* language .. githubUsername: the locals and the ProjectConfig
    shouldSaveConfig,
    shouldInstall,
    storedConfig,\* readUserConfig() as read by the run
    gitConfig,   \* readGitConfig() as read by the run
    profile,     \* the user profile file on disk
    asked,       \* prompts issued so far, in order
    files,       \* paths of the project written by createProject
    listed,      \* paths printed by the dry-run branch
    pkg,         \* the manifest generatePackageJson returned
    contents,    \* texts of the generated files, by path
    versionMap,  \* what fetchLatestVersions returned, by package name
    warnings,    \* warnings returned with the manifest
    outcome,     \* per side-effecting step: "none", "ok" or "failed"
    log,         \* clack.log / spinner messages that report a step's result
    userAgent,   \* npm_config_user_agent as read by the --yes branch
    exitCode     \* process exit code; Running while the run is going on

vars == <<pc, flags, argName, finalPackageName, typed, nameError, targetExists,
          config, shouldSaveConfig, shouldInstall, storedConfig, gitConfig,
          profile, asked, files, listed, pkg, contents, versionMap, warnings,
          outcome, log, userAgent, exitCode>>

----------------------------------------------------------------------------
(* Bounds *)

\* longest package name enumerated character by character
MaxLen == 3

----------------------------------------------------------------------------
(* JavaScript values *)

Undefined == "<undefined>"

Truthy(s) == s # Undefined /\ s # ""

\* `x || undefined`
OrUndefined(s) == IF Truthy(s) THEN s ELSE Undefined

----------------------------------------------------------------------------
(* validatePackageName *)

NPM_NAME_MAX_LENGTH == 214

Lower == {"a","b","c","d","e","f","g","h","i","j","k","l","m",
          "n","o","p","q","r","s","t","u","v","w","x","y","z"}

Digits == {"0","1","2","3","4","5","6","7","8","9"}

\* [a-z0-9-~]
FirstClass == Lower \cup Digits \cup {"-", "~"}

\* [a-z0-9-._~]
RestClass == Lower \cup Digits \cup {"-", ".", "_", "~"}

\* [a-z0-9-~][a-z0-9-._~]* on name[from..to]
SegmentMatches(name, from, to) ==
    /\ from <= to
    /\ name[from] \in FirstClass
    /\ \A i \in (from + 1)..to : name[i] \in RestClass

\* /^(@[a-z0-9-~][a-z0-9-._~]*\/)?[a-z0-9-~][a-z0-9-._~]*$/ .test(name)
scopedPackagePattern(name) ==
    \/ SegmentMatches(name, 1, Len(name))
    \/ /\ Len(name) >= 1
       /\ name[1] = "@"
       /\ \E k \in 2..Len(name) :
            /\ name[k] = "/"
            /\ SegmentMatches(name, 2, k - 1)
            /\ SegmentMatches(name, k + 1, Len(name))

node_modules == <<"n","o","d","e","_","m","o","d","u","l","e","s">>
favicon_ico == <<"f","a","v","i","c","o","n",".","i","c","o">>

reserved == {node_modules, favicon_ico}

ErrRequired == "Package name is required"
ErrTooLong == "Package name must be 214 characters or less"
ErrPattern == "Package name must be lowercase and can only contain letters, numbers, hyphens, underscores, and @/ for scoped packages"
ErrReserved == "is a reserved package name"

validatePackageName_offByOne(name) ==
    IF name = <<>> THEN ErrRequired
    ELSE IF Len(name) >= NPM_NAME_MAX_LENGTH THEN ErrTooLong
    ELSE IF ~scopedPackagePattern(name) THEN ErrPattern
    ELSE IF name \in reserved THEN ErrReserved
    ELSE Undefined

validatePackageName(name) ==
    IF name = <<>> THEN ErrRequired
    ELSE IF Len(name) > NPM_NAME_MAX_LENGTH THEN ErrTooLong
    ELSE IF ~scopedPackagePattern(name) THEN ErrPattern
    ELSE IF name \in reserved THEN ErrReserved
    ELSE Undefined

----------------------------------------------------------------------------
(* ProjectConfig and generatePackageJson *)

Languages == {"typescript", "javascript"}
ModuleTypes == {"esm", "commonjs", "dual"}
TestRunners == {"vitest", "jest", "none"}
PackageManagers == {"npm", "pnpm", "yarn", "bun"}

\* a JSON value that is a bare string / an object of export conditions
JsonString(s) == [kind |-> "string", value |-> s]
JsonObject(o) == [kind |-> "object", conditions |-> o]

generateFilesList_noMjs(c) ==
    IF c.language = "javascript" THEN <<"src">>
    ELSE <<"dist", "index.js", "index.d.ts">>

generateFilesList(c) ==
    IF c.language = "javascript" THEN <<"src">>
    ELSE LET files0 == <<"dist", "index.js", "index.d.ts">>
         IN IF c.moduleType = "dual" THEN Append(files0, "index.mjs")
            ELSE files0

\* the dual case with import and require exchanged
generateEntryPoints_swapped(c) ==
    IF c.language # "typescript"
    THEN ("main" :> JsonString("./src/index.js"))
         @@ (IF c.moduleType = "esm" \/ c.moduleType = "dual"
             THEN ("module" :> JsonString("./src/index.js")) ELSE <<>>)
         @@ ("exports" :> JsonObject("." :> JsonString("./src/index.js")))
    ELSE CASE c.moduleType = "esm" ->
              ("main" :> JsonString("./index.js"))
              @@ ("types" :> JsonString("./index.d.ts"))
              @@ ("exports" :> JsonObject("." :> JsonObject(
                     ("types" :> "./index.d.ts") @@ ("import" :> "./index.js"))))
           [] c.moduleType = "commonjs" ->
              ("main" :> JsonString("./index.js"))
              @@ ("types" :> JsonString("./index.d.ts"))
              @@ ("exports" :> JsonObject("." :> JsonObject(
                     ("types" :> "./index.d.ts") @@ ("require" :> "./index.js"))))
           [] c.moduleType = "dual" ->
              ("main" :> JsonString("./index.js"))
              @@ ("module" :> JsonString("./index.mjs"))
              @@ ("types" :> JsonString("./index.d.ts"))
              @@ ("exports" :> JsonObject("." :> JsonObject(
                     ("types" :> "./index.d.ts") @@ ("import" :> "./index.js")
                     @@ ("require" :> "./index.mjs"))))
           [] OTHER -> <<>>

\* the JavaScript branch setting `module` whatever the module type
generateEntryPoints_jsModuleAlways(c) ==
    IF c.language # "typescript"
    THEN ("main" :> JsonString("./src/index.js"))
         @@ ("module" :> JsonString("./src/index.js"))
         @@ ("exports" :> JsonObject("." :> JsonString("./src/index.js")))
    ELSE CASE c.moduleType = "esm" ->
              ("main" :> JsonString("./index.js"))
              @@ ("types" :> JsonString("./index.d.ts"))
              @@ ("exports" :> JsonObject("." :> JsonObject(
                     ("types" :> "./index.d.ts") @@ ("import" :> "./index.js"))))
           [] c.moduleType = "commonjs" ->
              ("main" :> JsonString("./index.js"))
              @@ ("types" :> JsonString("./index.d.ts"))
              @@ ("exports" :> JsonObject("." :> JsonObject(
                     ("types" :> "./index.d.ts") @@ ("require" :> "./index.js"))))
           [] c.moduleType = "dual" ->
              ("main" :> JsonString("./index.js"))
              @@ ("module" :> JsonString("./index.mjs"))
              @@ ("types" :> JsonString("./index.d.ts"))
              @@ ("exports" :> JsonObject("." :> JsonObject(
                     ("types" :> "./index.d.ts") @@ ("import" :> "./index.mjs")
                     @@ ("require" :> "./index.js"))))
           [] OTHER -> <<>>

\* main, module, types, exports; a key that is not assigned is not in the
\* DOMAIN of the result
generateEntryPoints(c) ==
    IF c.language # "typescript"
    THEN ("main" :> JsonString("./src/index.js"))
         @@ (IF c.moduleType = "esm" \/ c.moduleType = "dual"
             THEN ("module" :> JsonString("./src/index.js")) ELSE <<>>)
         @@ ("exports" :> JsonObject("." :> JsonString("./src/index.js")))
    ELSE CASE c.moduleType = "esm" ->
              ("main" :> JsonString("./index.js"))
              @@ ("types" :> JsonString("./index.d.ts"))
              @@ ("exports" :> JsonObject("." :> JsonObject(
                     ("types" :> "./index.d.ts") @@ ("import" :> "./index.js"))))
           [] c.moduleType = "commonjs" ->
              ("main" :> JsonString("./index.js"))
              @@ ("types" :> JsonString("./index.d.ts"))
              @@ ("exports" :> JsonObject("." :> JsonObject(
                     ("types" :> "./index.d.ts") @@ ("require" :> "./index.js"))))
           [] c.moduleType = "dual" ->
              ("main" :> JsonString("./index.js"))
              @@ ("module" :> JsonString("./index.mjs"))
              @@ ("types" :> JsonString("./index.d.ts"))
              @@ ("exports" :> JsonObject("." :> JsonObject(
                     ("types" :> "./index.d.ts") @@ ("import" :> "./index.mjs")
                     @@ ("require" :> "./index.js"))))
           [] OTHER -> <<>>

generateScripts(c) ==
    LET ext == IF c.language = "typescript" THEN "ts" ELSE "js" IN
    (IF c.language = "typescript"
     THEN ("build" :> "tsup") @@ ("typecheck" :> "tsc --noEmit") ELSE <<>>)
    @@ (IF c.testRunner = "vitest"
        THEN ("test" :> "vitest run") @@ ("test:watch" :> "vitest")
        ELSE IF c.testRunner = "jest"
        THEN ("test" :> "jest") @@ ("test:watch" :> "jest --watch")
        ELSE <<>>)
    @@ (IF c.useLinting
        THEN ("lint" :> ("eslint . --ext ." \o ext))
             @@ ("lint:fix" :> ("eslint . --ext ." \o ext \o " --fix"))
             @@ ("format" :> "prettier --write \"src/**/*.{ts,js,json,md}\"")
             @@ ("format:check" :> "prettier --check \"src/**/*.{ts,js,json,md}\"")
        ELSE <<>>)
    @@ (IF c.language = "typescript"
        THEN ("check:exports" :> "attw --pack") ELSE <<>>)
    @@ (IF c.language = "typescript"
        THEN ("prepublishOnly" :> "npm run build") ELSE <<>>)

generateDevDependencies(c) ==
    (IF c.language = "typescript"
     THEN ("typescript" :> "^5.3.3") @@ ("tsup" :> "^8.0.1")
          @@ ("@types/node" :> "^20.11.0")
          @@ ("@arethetypeswrong/cli" :> "^0.15.0")
     ELSE <<>>)
    @@ (IF c.testRunner = "vitest" THEN ("vitest" :> "^1.2.0")
        ELSE IF c.testRunner = "jest"
        THEN ("jest" :> "^29.7.0")
             @@ (IF c.language = "typescript"
                 THEN ("ts-jest" :> "^29.1.1") @@ ("@types/jest" :> "^29.5.11")
                 ELSE <<>>)
        ELSE <<>>)
    @@ (IF c.useLinting
        THEN (IF c.language = "typescript"
              THEN ("@typescript-eslint/eslint-plugin" :> "^6.19.0")
                   @@ ("@typescript-eslint/parser" :> "^6.19.0")
              ELSE <<>>)
             @@ ("eslint" :> "^8.56.0") @@ ("prettier" :> "^3.2.4")
             @@ ("eslint-config-prettier" :> "^9.1.0")
        ELSE <<>>)

authorField_emailNeedsGithub(c) ==
    IF Truthy(c.author)
    THEN c.author
         \o (IF Truthy(c.githubUsername)
             THEN (IF Truthy(c.authorEmail)
                   THEN " <" \o c.authorEmail \o ">" ELSE "")
                  \o " (https://github.com/" \o c.githubUsername \o ")"
             ELSE "")
    ELSE ""

authorField(c) ==
    IF Truthy(c.author)
    THEN c.author
         \o (IF Truthy(c.authorEmail) THEN " <" \o c.authorEmail \o ">" ELSE "")
         \o (IF Truthy(c.githubUsername)
             THEN " (https://github.com/" \o c.githubUsername \o ")" ELSE "")
    ELSE ""

\* `https://github.com/${githubUsername}/${packageName}${suffix}`
GithubUrl(c, suffix) ==
    [base |-> "https://github.com/", user |-> c.githubUsername,
     package |-> c.packageName, suffix |-> suffix]

generatePackageJson_homepageNeedsAuthor(c) ==
    ("name" :> c.packageName)
    @@ ("version" :> "0.1.0")
    @@ ("description" :> (IF Truthy(c.description) THEN c.description
                          ELSE "A new npm package"))
    @@ ("type" :> (IF c.moduleType = "commonjs" THEN "commonjs" ELSE "module"))
    @@ generateEntryPoints(c)
    @@ ("files" :> generateFilesList(c))
    @@ ("scripts" :> generateScripts(c))
    @@ ("keywords" :> <<>>)
    @@ ("author" :> authorField(c))
    @@ ("license" :> "MIT")
    @@ ("devDependencies" :> generateDevDependencies(c))
    @@ (IF Truthy(c.githubUsername)
        THEN ("repository" :> [type |-> "git", url |-> GithubUrl(c, ".git")])
             @@ ("bugs" :> [url |-> GithubUrl(c, "/issues")])
             @@ (IF Truthy(c.author)
                 THEN ("homepage" :> GithubUrl(c, "#readme")) ELSE <<>>)
        ELSE <<>>)

generatePackageJson(c) ==
    ("name" :> c.packageName)
    @@ ("version" :> "0.1.0")
    @@ ("description" :> (IF Truthy(c.description) THEN c.description
                          ELSE "A new npm package"))
    @@ ("type" :> (IF c.moduleType = "commonjs" THEN "commonjs" ELSE "module"))
    @@ generateEntryPoints(c)
    @@ ("files" :> generateFilesList(c))
    @@ ("scripts" :> generateScripts(c))
    @@ ("keywords" :> <<>>)
    @@ ("author" :> authorField(c))
    @@ ("license" :> "MIT")
    @@ ("devDependencies" :> generateDevDependencies(c))
    @@ (IF Truthy(c.githubUsername)
        THEN ("repository" :> [type |-> "git", url |-> GithubUrl(c, ".git")])
             @@ ("bugs" :> [url |-> GithubUrl(c, "/issues")])
             @@ ("homepage" :> GithubUrl(c, "#readme"))
        ELSE <<>>)

----------------------------------------------------------------------------
(* Generated texts: workflows, tsup.config.ts and the root index files.   *)
(* A workflow is its name, its version matrix and its steps; a step is    *)
(* its `name:` with its `uses:` or `run:` line ("" when it has none); a   *)
(* script file is the sequence of its statements.                         *)

Step(name, uses, run) == [name |-> name, uses |-> uses, run |-> run]

CodecovStep ==
    Step("Upload coverage to Codecov", "codecov/codecov-action@v4", "")

generateCIWorkflow(c) ==
    LET nodeVersions == <<"18", "20", "22">>
        steps ==
          <<Step("Checkout code", "actions/checkout@v4", ""),
            Step("Setup Node.js ${{ matrix.node-version }}",
                 "actions/setup-node@v4", ""),
            Step("Install dependencies", "", "npm install")>>
          \o (IF c.language = "typescript"
              THEN <<Step("Type check", "", "npm run typecheck")>> ELSE <<>>)
          \o (IF c.useLinting
              THEN <<Step("Lint", "", "npm run lint")>> ELSE <<>>)
          \o (IF c.testRunner # "none"
              THEN <<Step("Run tests", "", "npm test")>> ELSE <<>>)
          \o <<Step("Build", "", "npm run build")>>
          \o (IF c.testRunner # "none" THEN <<CodecovStep>> ELSE <<>>)
    IN [name |-> "CI", matrix |-> nodeVersions, steps |-> steps]

generateCDWorkflow(c) ==
    LET steps ==
          <<Step("Checkout code", "actions/checkout@v4", ""),
            Step("Setup Node.js", "actions/setup-node@v4", ""),
            Step("Install dependencies", "", "npm install")>>
          \o (IF c.language = "typescript"
              THEN <<Step("Type check", "", "npm run typecheck")>> ELSE <<>>)
          \o (IF c.testRunner # "none"
              THEN <<Step("Run tests", "", "npm test")>> ELSE <<>>)
          \o <<Step("Build", "", "npm run build")>>
          \o <<Step("Publish to npm", "", "npm publish")>>
    IN [name |-> "Publish", matrix |-> <<>>, steps |-> steps]

\* the template literal createProject writes to publish.yml
publishWorkflow ==
    [name |-> "Publish to npm", matrix |-> <<>>,
     steps |-> <<Step("Checkout", "actions/checkout@v4", ""),
                 Step("Setup Node.js", "actions/setup-node@v4", ""),
                 Step("Install Dependencies", "", "npm ci"),
                 Step("Run Tests", "", "npm run test:all"),
                 Step("Publish to npm", "", "npm publish --access public")>>]

generateTsupConfig_dualEsmFirst(c) ==
    LET formats ==
          IF c.moduleType = "esm" THEN <<"esm">>
          ELSE IF c.moduleType = "commonjs" THEN <<"cjs">>
          ELSE <<"esm", "cjs">>
    IN [entry |-> <<"src/index.ts">>, format |-> formats, dts |-> TRUE,
        splitting |-> FALSE, sourcemap |-> TRUE, clean |-> TRUE,
        treeshake |-> TRUE]

generateTsupConfig(c) ==
    LET formats ==
          IF c.moduleType = "esm" THEN <<"esm">>
          ELSE IF c.moduleType = "commonjs" THEN <<"cjs">>
          ELSE <<"cjs", "esm">>
    IN [entry |-> <<"src/index.ts">>, format |-> formats, dts |-> TRUE,
        splitting |-> FALSE, sourcemap |-> TRUE, clean |-> TRUE,
        treeshake |-> TRUE]

generateRootIndexJs(c) ==
    IF c.moduleType = "commonjs" \/ c.moduleType = "dual"
    THEN <<"'use strict';",
           "module.exports = require('./dist/index.js');",
           "module.exports.default = require('./dist/index.js').default;">>
    ELSE <<"export * from './dist/index.js';",
           "export { default } from './dist/index.js';">>

generateRootIndexMjs(c) ==
    <<"export * from './dist/index.mjs';",
      "export { default } from './dist/index.mjs';">>

\* the texts createProject writes, by path, for the files whose text is
\* modelled here (package.json is the variable pkg)
Contents(c) ==
    (IF c.language = "typescript"
     THEN ("tsup.config.ts" :> generateTsupConfig(c))
          @@ ("index.js" :> generateRootIndexJs(c))
          @@ (IF c.moduleType = "dual"
              THEN ("index.mjs" :> generateRootIndexMjs(c)) ELSE <<>>)
     ELSE <<>>)
    @@ (IF c.setupCD \/ c.setupCI \/ c.useDependabot
        THEN (IF c.setupCD
              THEN (".github/workflows/publish.yml" :> publishWorkflow)
              ELSE <<>>)
             @@ (IF c.setupCI
                 THEN (".github/workflows/ci.yml" :> generateCIWorkflow(c))
                 ELSE <<>>)
        ELSE <<>>)

\* the texts of the files in `paths`
ContentsOf(c, paths) ==
    [p \in paths \cap DOMAIN Contents(c) |-> Contents(c)[p]]

----------------------------------------------------------------------------
(* The command line, the environment and the inputs of the prompts *)

SampleLib == <<"s","a","m","p","l","e","-","l","i","b">>
MyPackage == <<"M","y"," ","P","a","c","k","a","g","e","!">>

\* positional [package-name] arguments tried; <<>> is "not supplied"
ArgNames == {<<>>, SampleLib, MyPackage}

\* values submitted to the package-name prompt
TypedNames == {<<>>, SampleLib, MyPackage}

\* values submitted to the optional text prompts
TextInputs == {"", "Ann"}

BaseFlagNames == {"yes", "dryRun", "skipInstall", "noSave", "resetConfig",
                  "config"}

\* the flags that name an answer to the language or test-runner question
ForceFlagNames == {"typescript", "javascript", "vitest", "jest", "noTests"}

FlagNames == BaseFlagNames \cup ForceFlagNames

\* commander: --dry-run -> options.dryRun, ...; the negatable --no-save and
\* --no-tests define options.save and options.tests (default true), so
\* options.noSave is never set
ParseOptions(f) ==
    [yes |-> f.yes, dryRun |-> f.dryRun, skipInstall |-> f.skipInstall,
     resetConfig |-> f.resetConfig, config |-> f.config,
     save |-> ~f.noSave, noSave |-> FALSE,
     typescript |-> f.typescript, javascript |-> f.javascript,
     vitest |-> f.vitest, jest |-> f.jest, tests |-> ~f.noTests]

options == ParseOptions(flags)

\* the flag read under a key commander never sets
isDryRun_unread == FALSE

isDryRun == options.dryRun
useDefaults == options.yes
skipInstall == options.skipInstall

NoUserConfig == [exists |-> FALSE, author |-> Undefined, email |-> Undefined,
                 github |-> Undefined]

SavedUserConfig == [exists |-> TRUE, author |-> "Ann", email |-> "ann@mail",
                    github |-> "ann-gh"]

NoGitConfig == [exists |-> FALSE, name |-> Undefined, email |-> Undefined]

\* readGitConfig: null unless user.name or user.email is set
GitConfigs == {NoGitConfig,
               [exists |-> TRUE, name |-> "Git Name", email |-> "git@mail"],
               [exists |-> TRUE, name |-> Undefined, email |-> "git@mail"]}

Steps == {"createProject", "install", "git", "changesets", "build",
          "writeUserConfig"}

\* the locals of program.action before they are assigned
UnsetConfig ==
    [packageName |-> <<>>, language |-> "unset", moduleType |-> "unset",
     testRunner |-> "unset", useLinting |-> FALSE, useChangesets |-> FALSE,
     initGit |-> FALSE, setupCI |-> FALSE, setupCD |-> FALSE,
     useCodecov |-> FALSE, useDependabot |-> FALSE,
     packageManager |-> "unset", description |-> Undefined,
     author |-> Undefined, authorEmail |-> Undefined,
     githubUsername |-> Undefined]

\* clack.text({defaultValue}): an empty submission yields the default
TextValue(input, defaultValue) == IF input = "" THEN defaultValue ELSE input

\* The answers that each configuration prompt preselects (its initialValue
\* or first option).
KeptInitialValues(c) ==
    /\ c.language = "typescript" /\ c.testRunner = "vitest"
    /\ c.useLinting /\ ~c.initGit
    /\ c.setupCI /\ ~c.setupCD /\ ~c.useCodecov /\ ~c.useDependabot

\* Bound on the user: every configuration question is answered in every way,
\* and the optional text prompts and the package-manager selection are
\* answered in every way by a user who kept the preselected configuration;
\* a user who changed a configuration answer leaves the text prompts empty
\* and keeps npm.
TextInputsFor(c) == IF KeptInitialValues(c) THEN TextInputs ELSE {""}

PackageManagerInputsFor(c) ==
    IF KeptInitialValues(c) THEN PackageManagers ELSE {"npm"}

\* pc values at which the run is suspended in a clack prompt wrapped in
\* handleCancel
PromptPcs == {"askName", "askConfirmName", "askContinue", "askLanguage",
              "askTestRunner", "askLinting", "askGit", "askCI", "askCD",
              "askCodecov", "askDependabot", "askDescription", "askUseGitConfig",
              "askAuthor", "askEmail", "askGithub", "askSave",
              "askPackageManager", "askProceed", "askInstall"}

Ask(p) == asked' = Append(asked, p)

\* process.exit(code); pc keeps why the run ended
Exit(reason, code) == pc' = reason /\ exitCode' = code

----------------------------------------------------------------------------
(* createProject and the dry-run listing *)

Ext(c) == IF c.language = "typescript" THEN "ts" ELSE "js"

\* createProject writing .npmignore whatever the language
createProjectPaths_npmignoreAlways(c) ==
    <<"src/index." \o Ext(c)>>
    \o (IF c.testRunner # "none" THEN <<"src/index.test." \o Ext(c)>> ELSE <<>>)
    \o <<"package.json", "README.md", ".gitignore", ".npmignore">>
    \o (IF c.language = "typescript"
        THEN <<"tsconfig.json", "tsup.config.ts", "index.js", "index.d.ts">>
             \o (IF c.moduleType = "dual" THEN <<"index.mjs">> ELSE <<>>)
        ELSE <<>>)
    \o (IF c.useLinting
        THEN <<".eslintrc.json", ".prettierrc", ".editorconfig">> ELSE <<>>)
    \o (IF c.testRunner = "vitest" THEN <<"vitest.config.ts">>
        ELSE IF c.testRunner = "jest" THEN <<"jest.config." \o Ext(c)>>
        ELSE <<>>)
    \o (IF c.setupCD \/ c.setupCI \/ c.useDependabot
        THEN (IF c.setupCD THEN <<".github/workflows/publish.yml">> ELSE <<>>)
             \o (IF c.setupCI THEN <<".github/workflows/ci.yml">> ELSE <<>>)
             \o (IF c.useDependabot THEN <<".github/dependabot.yml">> ELSE <<>>)
        ELSE <<>>)

\* the paths createProject writes, in the order it writes them
createProjectPaths(c) ==
    <<"src/index." \o Ext(c)>>
    \o (IF c.testRunner # "none" THEN <<"src/index.test." \o Ext(c)>> ELSE <<>>)
    \o <<"package.json", "README.md", ".gitignore">>
    \o (IF c.language = "typescript" THEN <<".npmignore">> ELSE <<>>)
    \o (IF c.language = "typescript"
        THEN <<"tsconfig.json", "tsup.config.ts", "index.js", "index.d.ts">>
             \o (IF c.moduleType = "dual" THEN <<"index.mjs">> ELSE <<>>)
        ELSE <<>>)
    \o (IF c.useLinting
        THEN <<".eslintrc.json", ".prettierrc", ".editorconfig">> ELSE <<>>)
    \o (IF c.testRunner = "vitest" THEN <<"vitest.config.ts">>
        ELSE IF c.testRunner = "jest" THEN <<"jest.config." \o Ext(c)>>
        ELSE <<>>)
    \o (IF c.setupCD \/ c.setupCI \/ c.useDependabot
        THEN (IF c.setupCD THEN <<".github/workflows/publish.yml">> ELSE <<>>)
             \o (IF c.setupCI THEN <<".github/workflows/ci.yml">> ELSE <<>>)
             \o (IF c.useDependabot THEN <<".github/dependabot.yml">> ELSE <<>>)
        ELSE <<>>)

\* the dry-run listing without the index.mjs line of the dual format
dryRunPaths_noMjs(c) ==
    <<"src/index." \o Ext(c)>>
    \o (IF c.testRunner # "none" THEN <<"src/index.test." \o Ext(c)>> ELSE <<>>)
    \o <<"package.json", "README.md", ".gitignore">>
    \o (IF c.language = "typescript"
        THEN <<".npmignore", "tsconfig.json", "tsup.config.ts", "index.js",
               "index.d.ts">>
        ELSE <<>>)
    \o (IF c.useLinting
        THEN <<".eslintrc.json", ".prettierrc", ".editorconfig">> ELSE <<>>)
    \o (IF c.testRunner = "vitest" THEN <<"vitest.config.ts">>
        ELSE IF c.testRunner = "jest" THEN <<"jest.config." \o Ext(c)>>
        ELSE <<>>)
    \o (IF c.setupCI THEN <<".github/workflows/ci.yml">> ELSE <<>>)
    \o (IF c.setupCD THEN <<".github/workflows/publish.yml">> ELSE <<>>)
    \o (IF c.useDependabot THEN <<".github/dependabot.yml">> ELSE <<>>)

\* the paths the dry-run branch prints, in order
dryRunPaths(c) ==
    <<"src/index." \o Ext(c)>>
    \o (IF c.testRunner # "none" THEN <<"src/index.test." \o Ext(c)>> ELSE <<>>)
    \o <<"package.json", "README.md", ".gitignore">>
    \o (IF c.language = "typescript"
        THEN <<".npmignore", "tsconfig.json", "tsup.config.ts", "index.js",
               "index.d.ts">>
             \o (IF c.moduleType = "dual" THEN <<"index.mjs">> ELSE <<>>)
        ELSE <<>>)
    \o (IF c.useLinting
        THEN <<".eslintrc.json", ".prettierrc", ".editorconfig">> ELSE <<>>)
    \o (IF c.testRunner = "vitest" THEN <<"vitest.config.ts">>
        ELSE IF c.testRunner = "jest" THEN <<"jest.config." \o Ext(c)>>
        ELSE <<>>)
    \o (IF c.setupCI THEN <<".github/workflows/ci.yml">> ELSE <<>>)
    \o (IF c.setupCD THEN <<".github/workflows/publish.yml">> ELSE <<>>)
    \o (IF c.useDependabot THEN <<".github/dependabot.yml">> ELSE <<>>)

Range(seq) == {seq[i] : i \in 1..Len(seq)}

----------------------------------------------------------------------------
(* program.action *)

Running == -1

nameVars == <<finalPackageName, typed, nameError>>
metaVars == <<storedConfig, gitConfig, shouldSaveConfig>>
diskVars == <<profile, files, listed, pkg, contents, outcome, log>>
lookupVars == <<versionMap, warnings>>
cmdVars == <<flags, argName, userAgent>>

\* handleCancel: any prompt answered with the cancel symbol
Cancel ==
    /\ pc \in PromptPcs
    /\ Exit("cancelled", 0)
    /\ UNCHANGED <<cmdVars, nameVars, targetExists, config, metaVars,
                   shouldInstall, asked, diskVars, lookupVars>>

\* --config
ShowConfig ==
    /\ pc = "start"
    /\ options.config
    /\ storedConfig' = profile
    /\ log' = log \cup {IF profile.exists THEN "info: Stored configuration"
                        ELSE "info: No configuration stored yet."}
    /\ Exit("configShown", 0)
    /\ UNCHANGED <<cmdVars, nameVars, targetExists, config, gitConfig,
                   shouldSaveConfig, shouldInstall, asked, profile, files,
                   listed, pkg, contents, lookupVars, outcome>>

\* --reset-config without its process.exit(0): the run goes on to Step 1
ResetConfig_noExit ==
    /\ pc = "start"
    /\ ~options.config
    /\ options.resetConfig
    /\ profile' = NoUserConfig
    /\ log' = log \cup {IF profile.exists
                        THEN "success: Configuration reset successfully."
                        ELSE "info: No configuration to reset."}
    /\ pc' = "checkAvailability"
    /\ UNCHANGED <<cmdVars, nameVars, targetExists, config, metaVars,
                   shouldInstall, asked, files, listed, pkg, contents,
                   lookupVars, outcome,
                   exitCode>>

\* --reset-config; unlinkSync may throw, and resetUserConfig rethrows outside
\* the action's try block: the rejection is unhandled and the process ends
\* with exit code 1
ResetConfig ==
    /\ pc = "start"
    /\ ~options.config
    /\ options.resetConfig
    /\ \E unlinked \in BOOLEAN :
         IF profile.exists /\ ~unlinked
         THEN /\ Exit("resetFailed", 1)
              /\ UNCHANGED <<profile, log>>
         ELSE /\ profile' = NoUserConfig
              /\ log' = log \cup {IF profile.exists
                                  THEN "success: Configuration reset successfully."
                                  ELSE "info: No configuration to reset."}
              /\ Exit("configReset", 0)
    /\ UNCHANGED <<cmdVars, nameVars, targetExists, config, metaVars,
                   shouldInstall, asked, files, listed, pkg, contents,
                   lookupVars, outcome>>

\* Step 1 up to its first prompt
Begin ==
    /\ pc = "start"
    /\ ~options.config
    /\ ~options.resetConfig
    /\ finalPackageName' = argName
    /\ IF argName = <<>>
       THEN pc' = "askName" /\ Ask("packageName")
       ELSE IF ~useDefaults
       THEN pc' = "askConfirmName" /\ Ask("confirmCreate")
       ELSE pc' = "checkAvailability" /\ UNCHANGED asked
    /\ UNCHANGED <<cmdVars, typed, nameError, targetExists, config, metaVars,
                   shouldInstall, diskVars, lookupVars, exitCode>>

\* clack.text({validate: validatePackageName}): a value with an error message
\* is refused and the prompt stays open
AnswerName ==
    /\ pc = "askName"
    /\ \E n \in TypedNames :
         /\ typed' = n
         /\ nameError' = validatePackageName(n)
         /\ IF validatePackageName(n) # Undefined
            THEN UNCHANGED <<pc, finalPackageName>>
            ELSE pc' = "checkAvailability" /\ finalPackageName' = n
    /\ UNCHANGED <<cmdVars, targetExists, config, metaVars, shouldInstall,
                   asked, diskVars, lookupVars, exitCode>>

AnswerConfirmName ==
    /\ pc = "askConfirmName"
    /\ \E confirmed \in BOOLEAN :
         IF ~confirmed
         THEN Exit("declined", 0)
         ELSE pc' = "checkAvailability" /\ UNCHANGED exitCode
    /\ UNCHANGED <<cmdVars, nameVars, targetExists, config, metaVars,
                   shouldInstall, asked, diskVars, lookupVars>>

\* checkPackageAvailability: `npm view` succeeding means the name is taken,
\* any failure counts as available
CheckAvailability ==
    /\ pc = "checkAvailability"
    /\ \E isAvailable \in BOOLEAN :
         IF ~isAvailable /\ ~useDefaults
         THEN pc' = "askContinue" /\ Ask("continueAnyway")
         ELSE pc' = "checkDir" /\ UNCHANGED asked
    /\ UNCHANGED <<cmdVars, nameVars, targetExists, config, metaVars,
                   shouldInstall, diskVars, lookupVars, exitCode>>

AnswerContinue ==
    /\ pc = "askContinue"
    /\ \E continueAnyway \in BOOLEAN :
         IF ~continueAnyway
         THEN Exit("declined", 0)
         ELSE pc' = "checkDir" /\ UNCHANGED exitCode
    /\ UNCHANGED <<cmdVars, nameVars, targetExists, config, metaVars,
                   shouldInstall, asked, diskVars, lookupVars>>

\* process.env.npm_config_user_agent, as the set of the names it includes
UserAgents == SUBSET {"pnpm", "yarn", "bun"}

detectPackageManager(ua) ==
    IF "pnpm" \in ua THEN "pnpm"
    ELSE IF "yarn" \in ua THEN "yarn"
    ELSE IF "bun" \in ua THEN "bun"
    ELSE "npm"

\* the defaults of the release before 1.6.0 (ESM only)
DefaultConfig_esm(name, pm) ==
    [UnsetConfig EXCEPT !.packageName = name,
                        !.language = "typescript", !.moduleType = "esm",
                        !.testRunner = "vitest", !.useLinting = TRUE,
                        !.initGit = FALSE, !.setupCI = TRUE, !.setupCD = FALSE,
                        !.useCodecov = FALSE, !.useDependabot = FALSE,
                        !.packageManager = pm]

\* the --yes branch of Step 2
DefaultConfig(name, pm) ==
    [UnsetConfig EXCEPT !.packageName = name,
                        !.language = "typescript", !.moduleType = "dual",
                        !.testRunner = "vitest", !.useLinting = TRUE,
                        !.initGit = FALSE, !.setupCI = TRUE, !.setupCD = FALSE,
                        !.useCodecov = FALSE, !.useDependabot = FALSE,
                        !.packageManager = pm]

\* the directory check skipped: the run goes on over an existing directory
CheckDirectory_noExit ==
    /\ pc = "checkDir"
    /\ \E exists \in BOOLEAN :
         /\ targetExists' = IF exists THEN "yes" ELSE "no"
         /\ UNCHANGED exitCode
         /\ IF useDefaults
            THEN /\ \E ua \in UserAgents :
                      /\ userAgent' = ua
                      /\ config' = DefaultConfig(finalPackageName,
                                                 detectPackageManager(ua))
                 /\ pc' = "ready"
                 /\ UNCHANGED asked
            ELSE /\ config' = [config EXCEPT !.packageName = finalPackageName]
                 /\ pc' = "askLanguage"
                 /\ Ask("language")
                 /\ UNCHANGED userAgent
    /\ UNCHANGED <<flags, argName, nameVars, metaVars, shouldInstall,
                   diskVars, lookupVars>>

\* the directory check; with --yes Steps 2 to 5 follow without a prompt
CheckDirectory ==
    /\ pc = "checkDir"
    /\ \E exists \in BOOLEAN :
         IF exists
         THEN /\ targetExists' = "yes"
              /\ Exit("dirExists", 1)
              /\ UNCHANGED <<config, asked, userAgent>>
         ELSE /\ targetExists' = "no"
              /\ UNCHANGED exitCode
              /\ IF useDefaults
                 THEN /\ \E ua \in UserAgents :
                           /\ userAgent' = ua
                           /\ config' = DefaultConfig(finalPackageName,
                                                      detectPackageManager(ua))
                      /\ pc' = "ready"
                      /\ UNCHANGED asked
                 ELSE /\ config' = [config EXCEPT !.packageName = finalPackageName]
                      /\ pc' = "askLanguage"
                      /\ Ask("language")
                      /\ UNCHANGED userAgent
    /\ UNCHANGED <<flags, argName, nameVars, metaVars, shouldInstall,
                   diskVars, lookupVars>>

\* the module format chosen from the language, as before 1.6.0
AnswerLanguage_commonjsForJavaScript ==
    /\ pc = "askLanguage"
    /\ \E l \in Languages :
         config' = [config EXCEPT !.language = l,
                                  !.moduleType = IF l = "javascript"
                                                 THEN "commonjs" ELSE "dual"]
    /\ pc' = "askTestRunner"
    /\ Ask("testRunner")
    /\ UNCHANGED <<cmdVars, nameVars, targetExists, metaVars, shouldInstall,
                   diskVars, lookupVars, exitCode>>

AnswerLanguage ==
    /\ pc = "askLanguage"
    /\ \E l \in Languages :
         config' = [config EXCEPT !.language = l, !.moduleType = "dual"]
    /\ pc' = "askTestRunner"
    /\ Ask("testRunner")
    /\ UNCHANGED <<cmdVars, nameVars, targetExists, metaVars, shouldInstall,
                   diskVars, lookupVars, exitCode>>

AnswerTestRunner ==
    /\ pc = "askTestRunner"
    /\ \E t \in TestRunners : config' = [config EXCEPT !.testRunner = t]
    /\ pc' = "askLinting"
    /\ Ask("useLinting")
    /\ UNCHANGED <<cmdVars, nameVars, targetExists, metaVars, shouldInstall,
                   diskVars, lookupVars, exitCode>>

AnswerLinting ==
    /\ pc = "askLinting"
    /\ \E b \in BOOLEAN : config' = [config EXCEPT !.useLinting = b]
    /\ pc' = "askGit"
    /\ Ask("initGit")
    /\ UNCHANGED <<cmdVars, nameVars, targetExists, metaVars, shouldInstall,
                   diskVars, lookupVars, exitCode>>

AnswerGit ==
    /\ pc = "askGit"
    /\ \E b \in BOOLEAN : config' = [config EXCEPT !.initGit = b]
    /\ pc' = "askCI"
    /\ Ask("setupCI")
    /\ UNCHANGED <<cmdVars, nameVars, targetExists, metaVars, shouldInstall,
                   diskVars, lookupVars, exitCode>>

\* the CD question put whatever the answer to the CI question
AnswerCI_asksCDAnyway ==
    /\ pc = "askCI"
    /\ \E b \in BOOLEAN : config' = [config EXCEPT !.setupCI = b]
    /\ pc' = "askCD"
    /\ Ask("setupCD")
    /\ UNCHANGED <<cmdVars, nameVars, targetExists, metaVars, shouldInstall,
                   diskVars, lookupVars, exitCode>>

AnswerCI ==
    /\ pc = "askCI"
    /\ \E b \in BOOLEAN :
         IF b
         THEN /\ config' = [config EXCEPT !.setupCI = TRUE]
              /\ pc' = "askCD"
              /\ Ask("setupCD")
         ELSE /\ config' = [config EXCEPT !.setupCI = FALSE, !.setupCD = FALSE,
                                          !.useCodecov = FALSE,
                                          !.useDependabot = FALSE]
              /\ pc' = "askDescription"
              /\ Ask("description")
    /\ UNCHANGED <<cmdVars, nameVars, targetExists, metaVars, shouldInstall,
                   diskVars, lookupVars, exitCode>>

\* the Codecov question put whatever the test runner
AnswerCD_alwaysCodecov ==
    /\ pc = "askCD"
    /\ \E b \in BOOLEAN : config' = [config EXCEPT !.setupCD = b]
    /\ pc' = "askCodecov"
    /\ Ask("useCodecov")
    /\ UNCHANGED <<cmdVars, nameVars, targetExists, metaVars, shouldInstall,
                   diskVars, lookupVars, exitCode>>

AnswerCD ==
    /\ pc = "askCD"
    /\ \E b \in BOOLEAN :
         IF config.testRunner # "none"
         THEN /\ config' = [config EXCEPT !.setupCD = b]
              /\ pc' = "askCodecov"
              /\ Ask("useCodecov")
         ELSE /\ config' = [config EXCEPT !.setupCD = b, !.useCodecov = FALSE]
              /\ pc' = "askDependabot"
              /\ Ask("useDependabot")
    /\ UNCHANGED <<cmdVars, nameVars, targetExists, metaVars, shouldInstall,
                   diskVars, lookupVars, exitCode>>

AnswerCodecov ==
    /\ pc = "askCodecov"
    /\ \E b \in BOOLEAN : config' = [config EXCEPT !.useCodecov = b]
    /\ pc' = "askDependabot"
    /\ Ask("useDependabot")
    /\ UNCHANGED <<cmdVars, nameVars, targetExists, metaVars, shouldInstall,
                   diskVars, lookupVars, exitCode>>

AnswerDependabot ==
    /\ pc = "askDependabot"
    /\ \E b \in BOOLEAN : config' = [config EXCEPT !.useDependabot = b]
    /\ pc' = "askDescription"
    /\ Ask("description")
    /\ UNCHANGED <<cmdVars, nameVars, targetExists, metaVars, shouldInstall,
                   diskVars, lookupVars, exitCode>>

\* the condition of the "Save this information for future projects?" prompt
SaveOffered(opts, stored, c) ==
    /\ ~stored.exists
    /\ ~opts.noSave
    /\ (Truthy(c.author) \/ Truthy(c.authorEmail) \/ Truthy(c.githubUsername))

\* the description, then readUserConfig and readGitConfig
AnswerDescription ==
    /\ pc = "askDescription"
    /\ storedConfig' = profile
    /\ \E input \in TextInputsFor(config), g \in GitConfigs :
         LET c1 == [config EXCEPT !.description = OrUndefined(TextValue(input, ""))]
         IN IF profile.exists
            THEN /\ config' = [c1 EXCEPT !.author = profile.author,
                                         !.authorEmail = profile.email,
                                         !.githubUsername = profile.github]
                 /\ UNCHANGED gitConfig
                 /\ pc' = "askPackageManager"
                 /\ Ask("packageManager")
            ELSE /\ config' = c1
                 /\ gitConfig' = g
                 /\ IF g.exists /\ (Truthy(g.name) \/ Truthy(g.email))
                    THEN pc' = "askUseGitConfig" /\ Ask("useGitConfig")
                    ELSE pc' = "askAuthor" /\ Ask("author")
    /\ UNCHANGED <<cmdVars, nameVars, targetExists, shouldSaveConfig,
                   shouldInstall, diskVars, lookupVars, exitCode>>

AnswerUseGitConfig ==
    /\ pc = "askUseGitConfig"
    /\ \E useGitConfig \in BOOLEAN :
         IF useGitConfig
         THEN /\ config' = [config EXCEPT !.author = gitConfig.name,
                                          !.authorEmail = gitConfig.email]
              /\ pc' = "askGithub"
              /\ Ask("githubUsername")
         ELSE /\ UNCHANGED config
              /\ pc' = "askAuthor"
              /\ Ask("author")
    /\ UNCHANGED <<cmdVars, nameVars, targetExists, metaVars, shouldInstall,
                   diskVars, lookupVars, exitCode>>

\* defaultValue: gitConfig.name || "" after a declined git config, "" without
AnswerAuthor ==
    /\ pc = "askAuthor"
    /\ \E input \in TextInputsFor(config) :
         config' = [config EXCEPT !.author = OrUndefined(TextValue(input,
                        IF Truthy(gitConfig.name) THEN gitConfig.name ELSE ""))]
    /\ pc' = "askEmail"
    /\ Ask("authorEmail")
    /\ UNCHANGED <<cmdVars, nameVars, targetExists, metaVars, shouldInstall,
                   diskVars, lookupVars, exitCode>>

AnswerEmail ==
    /\ pc = "askEmail"
    /\ \E input \in TextInputsFor(config) :
         config' = [config EXCEPT !.authorEmail = OrUndefined(TextValue(input,
                        IF Truthy(gitConfig.email) THEN gitConfig.email ELSE ""))]
    /\ pc' = "askGithub"
    /\ Ask("githubUsername")
    /\ UNCHANGED <<cmdVars, nameVars, targetExists, metaVars, shouldInstall,
                   diskVars, lookupVars, exitCode>>

AnswerGithub ==
    /\ pc = "askGithub"
    /\ \E input \in TextInputsFor(config) :
         LET c1 == [config EXCEPT
                      !.githubUsername = OrUndefined(TextValue(input, ""))]
         IN /\ config' = c1
            /\ IF SaveOffered(options, storedConfig, c1)
               THEN pc' = "askSave" /\ Ask("saveConfig")
               ELSE pc' = "askPackageManager" /\ Ask("packageManager")
    /\ UNCHANGED <<cmdVars, nameVars, targetExists, metaVars, shouldInstall,
                   diskVars, lookupVars, exitCode>>

AnswerSave ==
    /\ pc = "askSave"
    /\ \E b \in BOOLEAN : shouldSaveConfig' = b
    /\ pc' = "askPackageManager"
    /\ Ask("packageManager")
    /\ UNCHANGED <<cmdVars, nameVars, targetExists, config, storedConfig,
                   gitConfig, shouldInstall, diskVars, lookupVars, exitCode>>

\* Step 4, the ProjectConfig literal and the summary of Step 5
AnswerPackageManager ==
    /\ pc = "askPackageManager"
    /\ \E pm \in PackageManagerInputsFor(config) :
         config' = [config EXCEPT !.packageManager = pm]
    /\ pc' = "askProceed"
    /\ Ask("proceed")
    /\ UNCHANGED <<cmdVars, nameVars, targetExists, metaVars, shouldInstall,
                   diskVars, lookupVars, exitCode>>

AnswerProceed ==
    /\ pc = "askProceed"
    /\ \E proceed \in BOOLEAN :
         IF ~proceed
         THEN Exit("declined", 0)
         ELSE pc' = "ready" /\ UNCHANGED exitCode
    /\ UNCHANGED <<cmdVars, nameVars, targetExists, config, metaVars,
                   shouldInstall, asked, diskVars, lookupVars>>

\* the dry-run branch: print the paths and return
DryRun ==
    /\ pc = "ready"
    /\ isDryRun
    /\ listed' = dryRunPaths(config)
    /\ pc' = "done"
    /\ exitCode' = 0
    /\ UNCHANGED <<cmdVars, nameVars, targetExists, config, metaVars,
                   shouldInstall, asked, profile, files, pkg, contents,
                   lookupVars, outcome, log>>

\* the first k writes of createProject
Written(c, k) == {createProjectPaths(c)[i] : i \in 1..k}

\* Bound on the environment: a createProject that fails does so at its first
\* mkdir or at its last writeFile.
FailPoints(c) == {0, Len(createProjectPaths(c)) - 1}

\* Step 6, and Step 7 up to its prompt.  A mkdir/writeFile that throws ends in
\* the outer catch: process.exit(1) with the writes made so far left on disk.
CreateProject ==
    /\ pc = "ready"
    /\ ~isDryRun
    /\ \/ /\ files' = Written(config, Len(createProjectPaths(config)))
          /\ pkg' = generatePackageJson(config)
          /\ contents' = ContentsOf(config, files')
          /\ outcome' = [outcome EXCEPT !["createProject"] = "ok"]
          /\ shouldInstall' = ~skipInstall
          /\ UNCHANGED exitCode
          /\ IF ~skipInstall /\ ~useDefaults
             THEN pc' = "askInstall" /\ Ask("install")
             ELSE pc' = "install" /\ UNCHANGED asked
       \/ /\ \E k \in FailPoints(config) :
               /\ files' = Written(config, k)
               /\ pkg' = IF "package.json" \in Written(config, k)
                         THEN generatePackageJson(config) ELSE pkg
               /\ contents' = ContentsOf(config, Written(config, k))
          /\ outcome' = [outcome EXCEPT !["createProject"] = "failed"]
          /\ Exit("failed", 1)
          /\ UNCHANGED <<shouldInstall, asked>>
    /\ UNCHANGED <<lookupVars, cmdVars, nameVars, targetExists, config, metaVars,
                   profile, listed, log>>

AnswerInstall ==
    /\ pc = "askInstall"
    /\ \E b \in BOOLEAN : shouldInstall' = b
    /\ pc' = "install"
    /\ UNCHANGED <<cmdVars, nameVars, targetExists, config, metaVars,
                   asked, diskVars, lookupVars, exitCode>>

\* Step 7 without its try/catch: a failed install reaches the outer catch
Install_uncaught ==
    /\ pc = "install"
    /\ IF shouldInstall
       THEN \E ok \in BOOLEAN :
              /\ outcome' = [outcome EXCEPT
                               !["install"] = IF ok THEN "ok" ELSE "failed"]
              /\ log' = log \cup {IF ok THEN "success: Dependencies installed"
                                  ELSE "error: An error occurred"}
              /\ IF ok THEN pc' = "postInstall" /\ UNCHANGED exitCode
                 ELSE Exit("failed", 1)
       ELSE /\ log' = log \cup {"info: Skipping dependency installation"}
            /\ pc' = "postInstall"
            /\ UNCHANGED <<outcome, exitCode>>
    /\ UNCHANGED <<cmdVars, nameVars, targetExists, config, metaVars,
                   shouldInstall, asked, profile, files, listed, pkg,
                   contents, lookupVars>>

\* Step 7: execSync(install) inside try/catch
Install ==
    /\ pc = "install"
    /\ IF shouldInstall
       THEN \E ok \in BOOLEAN :
              /\ outcome' = [outcome EXCEPT
                               !["install"] = IF ok THEN "ok" ELSE "failed"]
              /\ log' = log \cup {IF ok THEN "success: Dependencies installed"
                                  ELSE "warn: Failed to install dependencies"}
       ELSE /\ log' = log \cup {"info: Skipping dependency installation"}
            /\ UNCHANGED outcome
    /\ pc' = "postInstall"
    /\ UNCHANGED <<cmdVars, nameVars, targetExists, config, metaVars,
                   shouldInstall, asked, profile, files, listed, pkg,
                   contents, lookupVars, exitCode>>

\* Step 8: the git task and the Promise.allSettled join
PostInstall ==
    /\ pc = "postInstall"
    /\ IF shouldInstall /\ config.initGit
       THEN \E ok \in BOOLEAN :
              /\ outcome' = [outcome EXCEPT
                               !["git"] = IF ok THEN "ok" ELSE "failed"]
              /\ log' = log \cup {IF ok THEN "success: git initialized"
                                  ELSE "warn: Failed to initialize git"}
       ELSE UNCHANGED <<outcome, log>>
    /\ pc' = "verify"
    /\ UNCHANGED <<cmdVars, nameVars, targetExists, config, metaVars,
                   shouldInstall, asked, profile, files, listed, pkg,
                   contents, lookupVars, exitCode>>

\* Step 9: `<packageManager> run build` inside try/catch
Verify ==
    /\ pc = "verify"
    /\ IF shouldInstall /\ config.language = "typescript"
       THEN \E ok \in BOOLEAN :
              /\ outcome' = [outcome EXCEPT
                               !["build"] = IF ok THEN "ok" ELSE "failed"]
              /\ log' = log \cup {IF ok THEN "success: Build successful"
                                  ELSE "warn: Build verification failed"}
       ELSE UNCHANGED <<outcome, log>>
    /\ pc' = "save"
    /\ UNCHANGED <<cmdVars, nameVars, targetExists, config, metaVars,
                   shouldInstall, asked, profile, files, listed, pkg,
                   contents, lookupVars, exitCode>>

\* writeUserConfig inside try/catch, then the success message
SaveUserConfig ==
    /\ pc = "save"
    /\ IF shouldSaveConfig
       THEN \E ok \in BOOLEAN :
              /\ outcome' = [outcome EXCEPT
                               !["writeUserConfig"] = IF ok THEN "ok" ELSE "failed"]
              /\ profile' = IF ok
                            THEN [exists |-> TRUE, author |-> config.author,
                                  email |-> config.authorEmail,
                                  github |-> config.githubUsername]
                            ELSE profile
              /\ log' = log \cup {IF ok THEN "success: Configuration saved"
                                  ELSE "warn: Failed to save configuration"}
       ELSE UNCHANGED <<outcome, profile, log>>
    /\ pc' = "done"
    /\ exitCode' = 0
    /\ UNCHANGED <<cmdVars, nameVars, targetExists, config, metaVars,
                   shouldInstall, asked, files, listed, pkg, contents,
                   lookupVars>>

----------------------------------------------------------------------------
(* Specifications *)

NoOutcome == [s \in Steps |-> "none"]

\* Bound on the command lines: every combination of the base flags without a
\* force flag, and these combinations of force flags alone or with --yes.
ForceCombos == {{}, {"javascript", "vitest"}, {"noTests"},
                {"typescript", "jest"}}

AllFlags ==
    {f \in [FlagNames -> BOOLEAN] :
       LET force == {n \in ForceFlagNames : f[n]}
           base == {n \in BaseFlagNames : f[n]}
       IN /\ force \in ForceCombos
          /\ force # {} => base \subseteq {"yes"}}

\* nothing read, asked, written or executed yet
Fresh ==
    /\ finalPackageName = <<>>
    /\ nameError = Undefined
    /\ targetExists = "unknown"
    /\ shouldSaveConfig = FALSE
    /\ shouldInstall = FALSE
    /\ storedConfig = NoUserConfig
    /\ gitConfig = NoGitConfig
    /\ asked = <<>>
    /\ files = {}
    /\ listed = <<>>
    /\ pkg = <<>>
    /\ contents = <<>>
    /\ versionMap = <<>>
    /\ warnings = <<>>
    /\ outcome = NoOutcome
    /\ log = {}
    /\ userAgent = {}
    /\ exitCode = Running

\* one run of the CLI: any flags, any positional name, with or without a
\* stored user profile
Init ==
    /\ pc = "start"
    /\ Fresh
    /\ typed = <<>>
    /\ config = UnsetConfig
    /\ flags \in AllFlags
    /\ argName \in ArgNames
    /\ profile \in {NoUserConfig, SavedUserConfig}

Next ==
    \/ Cancel \/ ShowConfig \/ ResetConfig \/ Begin
    \/ AnswerName \/ AnswerConfirmName \/ CheckAvailability \/ AnswerContinue
    \/ CheckDirectory
    \/ AnswerLanguage \/ AnswerTestRunner \/ AnswerLinting \/ AnswerGit
    \/ AnswerCI \/ AnswerCD \/ AnswerCodecov \/ AnswerDependabot
    \/ AnswerDescription \/ AnswerUseGitConfig \/ AnswerAuthor \/ AnswerEmail
    \/ AnswerGithub \/ AnswerSave \/ AnswerPackageManager \/ AnswerProceed
    \/ DryRun \/ CreateProject \/ AnswerInstall
    \/ Install \/ PostInstall \/ Verify \/ SaveUserConfig

Spec == Init /\ [][Next]_vars

----------------------------------------------------------------------------
(* validatePackageName on its own *)

\* characters of the enumerated names: a letter, a digit, an uppercase letter,
\* a space, a symbol outside the pattern, and the symbols of the pattern
Alphabet == {"a", "1", "A", " ", "!", "-", "_", ".", "~", "@", "/"}

ShortNames == UNION {[1..n -> Alphabet] : n \in 0..MaxLen}

Repeat(ch, n) == [i \in 1..n |-> ch]

\* names around the length ceiling, and the names of the validator's tests
LongNames ==
    {Repeat("a", n) : n \in {NPM_NAME_MAX_LENGTH - 1, NPM_NAME_MAX_LENGTH,
                             NPM_NAME_MAX_LENGTH + 1}}
    \cup {Repeat("A", NPM_NAME_MAX_LENGTH + 1),
          <<"@", "s", "/">> \o Repeat("b", NPM_NAME_MAX_LENGTH - 3),
          <<"@", "s", "/">> \o Repeat("b", NPM_NAME_MAX_LENGTH - 2)}

TestNames ==
    {node_modules, favicon_ico, SampleLib, MyPackage,
     <<"m","y","_","p","a","c","k","a","g","e">>,
     <<"m","y",".","p","a","c","k","a","g","e">>,
     <<"@","s","c","o","p","e","/","p","a","c","k","a","g","e">>,
     <<"@","m","y","-","o","r","g","/","m","y",".","p","k","g","-","n">>,
     <<"m","y","@","p","a","c","k","a","g","e">>,
     <<"m","y","#","p","a","c","k","a","g","e">>,
     <<".","m","y","p","a","c","k","a","g","e">>,
     <<"_","m","y","p","a","c","k","a","g","e">>,
     <<"@","/","p","a","c","k","a","g","e">>,
     <<"@","s","c","o","p","e","/">>,
     <<"s","c","o","p","e","/","p","a","c","k","a","g","e">>}

NameInputs == ShortNames \cup LongNames \cup TestNames

InitValidate ==
    /\ pc = "validate"
    /\ Fresh
    /\ typed \in NameInputs
    /\ config = UnsetConfig
    /\ flags = [f \in FlagNames |-> FALSE]
    /\ argName = <<>>
    /\ profile = NoUserConfig

Validate ==
    /\ pc = "validate"
    /\ nameError' = validatePackageName(typed)
    /\ pc' = "validated"
    /\ UNCHANGED <<cmdVars, finalPackageName, typed, targetExists, config,
                   metaVars, shouldInstall, asked, diskVars, lookupVars,
                   exitCode>>

NextValidate == Validate

SpecValidate == InitValidate /\ [][NextValidate]_vars

----------------------------------------------------------------------------
(* generatePackageJson on its own *)

GenConfigs ==
    {[UnsetConfig EXCEPT !.packageName = SampleLib,
                         !.language = l, !.moduleType = m, !.testRunner = t,
                         !.useLinting = b[1], !.useChangesets = b[2],
                         !.setupCI = b[3], !.setupCD = b[4],
                         !.useCodecov = b[5], !.useDependabot = b[6],
                         !.packageManager = "npm",
                         !.description = d, !.author = a[1],
                         !.authorEmail = a[2], !.githubUsername = a[3]] :
        l \in Languages, m \in ModuleTypes, t \in TestRunners,
        b \in [1..6 -> BOOLEAN],
        d \in {Undefined, "A library"},
        a \in {Undefined, "Ann"} \X {Undefined, "ann@mail"}
              \X {Undefined, "ann-gh"}}

InitGenerate ==
    /\ pc = "generate"
    /\ Fresh
    /\ typed = <<>>
    /\ config \in GenConfigs
    /\ flags = [f \in FlagNames |-> FALSE]
    /\ argName = <<>>
    /\ profile = NoUserConfig

Generate ==
    /\ pc = "generate"
    /\ pkg' = generatePackageJson(config)
    /\ pc' = "generated"
    /\ UNCHANGED <<cmdVars, nameVars, targetExists, config, metaVars,
                   shouldInstall, asked, profile, files, listed, contents,
                   lookupVars,
                   outcome, log, exitCode>>

NextGenerate == Generate

SpecGenerate == InitGenerate /\ [][NextGenerate]_vars

----------------------------------------------------------------------------
(* Properties of generatePackageJson, under SpecGenerate *)

\* exports['.'] of a manifest
RootExport == pkg["exports"].conditions["."]

\* C1: for every language and module type the manifest's type is "commonjs"
\* exactly when moduleType is commonjs and "module" otherwise; for TypeScript
\* main is ./index.js, types is ./index.d.ts, and exports['.'] has exactly
\* the conditions {types, import} (esm), {types, require} (commonjs),
\* {types, import, require} (dual), with module and import at ./index.mjs and
\* require at ./index.js for dual; exports['.'] is always defined.
C1_TypeAndTypeScriptEntryPoints ==
    pc = "generated" =>
      /\ pkg["type"] = (IF config.moduleType = "commonjs" THEN "commonjs"
                        ELSE "module")
      /\ "exports" \in DOMAIN pkg
      /\ pkg["exports"].kind = "object"
      /\ DOMAIN pkg["exports"].conditions = {"."}
      /\ config.language = "typescript" =>
           /\ pkg["main"] = JsonString("./index.js")
           /\ pkg["types"] = JsonString("./index.d.ts")
           /\ RootExport.kind = "object"
           /\ RootExport.conditions["types"] = "./index.d.ts"
           /\ config.moduleType = "esm" =>
                DOMAIN RootExport.conditions = {"types", "import"}
           /\ config.moduleType = "commonjs" =>
                DOMAIN RootExport.conditions = {"types", "require"}
           /\ config.moduleType = "dual" =>
                /\ DOMAIN RootExport.conditions = {"types", "import", "require"}
                /\ pkg["module"] = JsonString("./index.mjs")
                /\ RootExport.conditions["import"] = "./index.mjs"
                /\ RootExport.conditions["require"] = "./index.js"

C1_Witness ==
    /\ pc = "generated"
    /\ config.language = "typescript"
    /\ config.moduleType = "dual"
    /\ pkg["type"] = "module"
    /\ RootExport.conditions["import"] = "./index.mjs"

\* C2: for JavaScript, whatever the module type, main is ./src/index.js,
\* module is present (and is ./src/index.js) exactly for esm and dual,
\* exports is {'.': './src/index.js'} with a bare string value, and there is
\* no types field.
C2_JavaScriptEntryPoints ==
    (pc = "generated" /\ config.language = "javascript") =>
      /\ pkg["main"] = JsonString("./src/index.js")
      /\ ("module" \in DOMAIN pkg) <=> (config.moduleType \in {"esm", "dual"})
      /\ "module" \in DOMAIN pkg => pkg["module"] = JsonString("./src/index.js")
      /\ pkg["exports"].kind = "object"
      /\ DOMAIN pkg["exports"].conditions = {"."}
      /\ RootExport = JsonString("./src/index.js")
      /\ "types" \notin DOMAIN pkg

C2_Witness ==
    /\ pc = "generated"
    /\ config.language = "javascript"
    /\ config.moduleType = "commonjs"
    /\ "module" \notin DOMAIN pkg
    /\ RootExport.kind = "string"

\* C3: files is exactly ['src'] for JavaScript, exactly
\* ['dist', 'index.js', 'index.d.ts'] for TypeScript esm and commonjs, and
\* those three plus 'index.mjs' for TypeScript dual; index.mjs is listed
\* exactly when the language is typescript and the module type is dual.
C3_FilesList ==
    pc = "generated" =>
      /\ config.language = "javascript" => pkg["files"] = <<"src">>
      /\ (config.language = "typescript" /\ config.moduleType # "dual") =>
           pkg["files"] = <<"dist", "index.js", "index.d.ts">>
      /\ (config.language = "typescript" /\ config.moduleType = "dual") =>
           pkg["files"] = <<"dist", "index.js", "index.d.ts", "index.mjs">>
      /\ ("index.mjs" \in Range(pkg["files"])) <=>
           (config.language = "typescript" /\ config.moduleType = "dual")

C3_Witness ==
    /\ pc = "generated"
    /\ config.language = "typescript"
    /\ config.moduleType = "dual"
    /\ "index.mjs" \in Range(pkg["files"])

----------------------------------------------------------------------------
(* Properties of a run of the CLI, under Spec *)

\* the ProjectConfig literal of the run has been built
Resolved == config.packageManager # "unset"

\* C4: in every resolved ProjectConfig, with --yes or with any answers,
\* useCodecov holds only with setupCI and a test runner, and setupCD and
\* useDependabot hold only with setupCI.
C4_WorkflowFlagsNeedCI ==
    Resolved =>
      /\ config.useCodecov => (config.setupCI /\ config.testRunner # "none")
      /\ config.setupCD => config.setupCI
      /\ config.useDependabot => config.setupCI

C4_Witness ==
    /\ Resolved
    /\ ~useDefaults
    /\ config.setupCI
    /\ config.setupCD
    /\ config.testRunner = "none"
    /\ ~config.useCodecov

\* C5: a run ended by cancelling a prompt, whichever prompt it is, has exit
\* code 0 and has written no file or directory of the project.
C5_CancelWritesNothing ==
    pc = "cancelled" =>
      /\ exitCode = 0
      /\ files = {}
      /\ outcome["createProject"] = "none"

\* C6: when the target directory exists the run ends with a non-zero exit
\* code before createProject or any write of the project; a run that ends in
\* success, in a cancelled prompt or in a declined confirmation exits with 0.
C6_ExistingDirectoryFailsFast ==
    /\ targetExists = "yes" =>
         /\ pc = "dirExists"
         /\ exitCode \notin {0, Running}
         /\ files = {}
         /\ outcome = NoOutcome
    /\ pc \in {"done", "cancelled", "declined"} => exitCode = 0

C6_Witness ==
    /\ targetExists = "yes"
    /\ pc = "dirExists"
    /\ exitCode = 1
    /\ files = {}

\* C7: no run reaches createProject with a package name for which
\* validatePackageName returns an error message, whether the name was typed
\* at the prompt or passed as the positional argument.
C7_NoInvalidNameReachesCreateProject ==
    outcome["createProject"] # "none" =>
      validatePackageName(config.packageName) = Undefined

\* C9: with --yes the resolved ProjectConfig is typescript, dual, vitest,
\* linting on, git off, CI on, CD, Codecov and Dependabot off, with the
\* package manager detectPackageManager() returns; and the only prompt of
\* the run is the package-name prompt, asked only without a positional name.
C9_YesUsesDefaults ==
    flags.yes =>
      /\ Resolved =>
           /\ config.language = "typescript"
           /\ config.moduleType = "dual"
           /\ config.testRunner = "vitest"
           /\ config.useLinting
           /\ ~config.initGit
           /\ config.setupCI
           /\ ~config.setupCD
           /\ ~config.useCodecov
           /\ ~config.useDependabot
           /\ config.packageManager = detectPackageManager(userAgent)
      /\ asked \in {<<>>, <<"packageName">>}
      /\ argName # <<>> => asked = <<>>

C9_Witness ==
    /\ flags.yes
    /\ argName = <<>>
    /\ pc = "done"
    /\ asked = <<"packageName">>
    /\ outcome["createProject"] = "ok"
    /\ config.packageManager = "yarn"

----------------------------------------------------------------------------
(* Properties of validatePackageName, under SpecValidate *)

\* the characters the naming rule names: lowercase alphanumerics, hyphen,
\* underscore and dot
NamedChars == Lower \cup Digits \cup {"-", "_", "."}

\* a non-empty run of characters of cs that starts with none of `leading`
Part(name, cs, leading) ==
    /\ Len(name) >= 1
    /\ \A i \in 1..Len(name) : name[i] \in cs
    /\ name[1] \notin leading

\* name is `part`, or `@part/part`
Shaped(name, cs, leading) ==
    \/ Part(name, cs, leading)
    \/ /\ Len(name) >= 1
       /\ name[1] = "@"
       /\ \E k \in 2..Len(name) :
            /\ name[k] = "/"
            /\ Part(SubSeq(name, 2, k - 1), cs, leading)
            /\ Part(SubSeq(name, k + 1, Len(name)), cs, leading)

\* the names the rule says are refused
Refused(name) ==
    \/ name = <<>>
    \/ Len(name) > NPM_NAME_MAX_LENGTH
    \/ \E i \in 1..Len(name) : name[i] \notin NamedChars \cup {"~", "@", "/"}
    \/ name[1] = "."
    \/ /\ \E i \in 1..Len(name) : name[i] \in {"@", "/"}
       /\ ~Shaped(name, NamedChars \cup {"~"}, {})
    \/ name \in reserved

\* C8 as stated: the refused names get an error message, and every name of
\* lowercase alphanumerics, hyphens, underscores and dots, with or without
\* a scope, of at most 214 characters, neither reserved nor starting with a
\* dot, is accepted.
C8_AsStated ==
    pc = "validated" =>
      /\ Refused(typed) => nameError # Undefined
      /\ (/\ Shaped(typed, NamedChars, {})
          /\ Len(typed) <= NPM_NAME_MAX_LENGTH
          /\ typed \notin reserved
          /\ typed[1] # ".") => nameError = Undefined

\* C8: validatePackageName accepts exactly the names of at most 214
\* characters, other than node_modules and favicon.ico, that are a name part
\* or @scope/name part, each part made of lowercase alphanumerics, hyphen,
\* underscore, dot and tilde and starting with neither a dot nor an
\* underscore; every other name, the refused ones included, gets an error
\* message.
C8_ValidatePackageName ==
    pc = "validated" =>
      /\ Refused(typed) => nameError # Undefined
      /\ (nameError = Undefined) <=>
           /\ Shaped(typed, NamedChars \cup {"~"}, {".", "_"})
           /\ Len(typed) <= NPM_NAME_MAX_LENGTH
           /\ typed \notin reserved

C8_Witness ==
    /\ pc = "validated"
    /\ Len(typed) = NPM_NAME_MAX_LENGTH
    /\ typed[1] = "@"
    /\ nameError = Undefined

----------------------------------------------------------------------------
(* The dry-run listing and createProject on the same ProjectConfig *)

InitFiles ==
    /\ pc = "plan"
    /\ Fresh
    /\ typed = <<>>
    /\ config \in GenConfigs
    /\ flags = [f \in FlagNames |-> FALSE]
    /\ argName = <<>>
    /\ profile = NoUserConfig

\* the dry-run branch of program.action on config
ListPaths ==
    /\ pc = "plan"
    /\ listed' = dryRunPaths(config)
    /\ pc' = "listed"
    /\ UNCHANGED <<cmdVars, nameVars, targetExists, config, metaVars,
                   shouldInstall, asked, profile, files, pkg, contents,
                   lookupVars, outcome, log,
                   exitCode>>

\* createProject(config, targetDir) running to its end
WriteProject ==
    /\ pc = "listed"
    /\ files' = Written(config, Len(createProjectPaths(config)))
    /\ pkg' = generatePackageJson(config)
    /\ contents' = ContentsOf(config, files')
    /\ outcome' = [outcome EXCEPT !["createProject"] = "ok"]
    /\ pc' = "written"
    /\ UNCHANGED <<lookupVars, cmdVars, nameVars, targetExists, config, metaVars,
                   shouldInstall, asked, profile, listed, log, exitCode>>

NextFiles == ListPaths \/ WriteProject

SpecFiles == InitFiles /\ [][NextFiles]_vars

requiredFiles ==
    {"package.json", "README.md", ".gitignore", "tsconfig.json",
     "tsup.config.ts", "vitest.config.ts", "index.js", "index.d.ts",
     ".eslintrc.json", ".prettierrc", ".editorconfig", "src/index.ts",
     "src/index.test.ts"}

\* C12: createProject writes each conditional file exactly when its
\* precondition holds, writes package.json, README.md, .gitignore and
\* src/index.* always, and for the --yes configuration writes every file the
\* end-to-end test requires and neither publish.yml nor dependabot.yml.
C12_ConditionalFiles ==
    pc = "written" =>
      LET ts == config.language = "typescript"
          has(f) == f \in files
      IN
      /\ \A f \in {"tsconfig.json", "tsup.config.ts", ".npmignore", "index.js",
                   "index.d.ts"} : has(f) <=> ts
      /\ has("index.mjs") <=> (ts /\ config.moduleType = "dual")
      /\ \A f \in {".eslintrc.json", ".prettierrc", ".editorconfig"} :
           has(f) <=> config.useLinting
      /\ has("vitest.config.ts") <=> config.testRunner = "vitest"
      /\ (has("jest.config.ts") \/ has("jest.config.js"))
           <=> config.testRunner = "jest"
      /\ (has("src/index.test.ts") \/ has("src/index.test.js"))
           <=> config.testRunner # "none"
      /\ has(".github/workflows/ci.yml") <=> config.setupCI
      /\ has(".github/workflows/publish.yml") <=> config.setupCD
      /\ has(".github/dependabot.yml") <=> config.useDependabot
      /\ {"package.json", "README.md", ".gitignore"} \subseteq files
      /\ has("src/index.ts") \/ has("src/index.js")
      /\ config = DefaultConfig(SampleLib, "npm") =>
           /\ requiredFiles \subseteq files
           /\ ~has(".github/workflows/publish.yml")
           /\ ~has(".github/dependabot.yml")

C12_Witness ==
    /\ pc = "written"
    /\ config = DefaultConfig(SampleLib, "npm")
    /\ requiredFiles \subseteq files
    /\ ".github/workflows/ci.yml" \in files

----------------------------------------------------------------------------
(* Properties of the steps after createProject, under Spec *)

\* C13: git initialization and build verification are executed only in runs
\* where the install subprocess was executed and succeeded; with
\* --skip-install, or when the install question is declined, neither runs.
C13_PostInstallNeedsInstallSuccess ==
    (outcome["git"] # "none" \/ outcome["build"] # "none") =>
      outcome["install"] = "ok"

----------------------------------------------------------------------------
(* Properties of the user profile, under Spec *)

\* how many times prompt p was issued
TimesAsked(p) == Cardinality({i \in 1..Len(asked) : asked[i] = p})

\* C15: with --no-save the question "Save this information for future
\* projects?" is never asked and writeUserConfig is never called, whatever
\* metadata the user enters.
C15_NoSaveSuppressesSave ==
    flags.noSave =>
      /\ TimesAsked("saveConfig") = 0
      /\ outcome["writeUserConfig"] = "none"

\* C18: in an interactive run that has collected the metadata, the save
\* question was asked exactly once if no stored profile existed and the user
\* did not pass --no-save, and was not asked otherwise; the profile is
\* written only after a yes to that question, the write replaces the whole
\* record {author, email, github}, and with a stored profile the question is
\* never asked.
C18_SaveQuestionAndProfileWrite ==
    /\ (Resolved /\ ~flags.yes) =>
         TimesAsked("saveConfig") =
           (IF ~storedConfig.exists /\ ~flags.noSave THEN 1 ELSE 0)
    /\ outcome["writeUserConfig"] # "none" =>
         (shouldSaveConfig /\ TimesAsked("saveConfig") = 1)
    /\ outcome["writeUserConfig"] = "ok" =>
         profile = [exists |-> TRUE, author |-> config.author,
                    email |-> config.authorEmail,
                    github |-> config.githubUsername]
    /\ storedConfig.exists => TimesAsked("saveConfig") = 0

----------------------------------------------------------------------------
(* Properties of the force flags, under Spec *)

\* C16: when a language or test-runner force flag is supplied the resolved
\* ProjectConfig carries the value the flag names and the corresponding
\* question is not asked.
C16_ForceFlagsPreAnswer ==
    /\ Resolved =>
         /\ flags.typescript => config.language = "typescript"
         /\ flags.javascript => config.language = "javascript"
         /\ flags.vitest => config.testRunner = "vitest"
         /\ flags.jest => config.testRunner = "jest"
         /\ flags.noTests => config.testRunner = "none"
    /\ (flags.typescript \/ flags.javascript) => TimesAsked("language") = 0
    /\ (flags.vitest \/ flags.jest \/ flags.noTests) =>
         TimesAsked("testRunner") = 0

----------------------------------------------------------------------------
(* Properties of --config and --reset-config, under Spec *)

\* nothing of the scaffolding flow has happened: no prompt, no availability
\* or directory check, no configuration, no project file, no step
FlowBypassed ==
    /\ pc \in {"start", "configShown", "configReset", "resetFailed"}
    /\ asked = <<>>
    /\ targetExists = "unknown"
    /\ config = UnsetConfig
    /\ files = {}
    /\ listed = <<>>
    /\ pkg = <<>>
    /\ contents = <<>>
    /\ outcome = NoOutcome

\* C17 as stated: with --config or --reset-config the flow is bypassed and
\* the process exits with code 0.
C17_AsStated ==
    (flags.config \/ flags.resetConfig) =>
      /\ FlowBypassed
      /\ exitCode \in {Running, 0}

\* C17: with --config or --reset-config the scaffolding flow is bypassed
\* entirely; the profile changes only by --reset-config (without --config)
\* deleting it; the exit code is 0, except that it is 1 when deleting an
\* existing profile file fails, which leaves the profile in place.
C17_ConfigFlagsBypass ==
    /\ []((flags.config \/ flags.resetConfig) =>
            /\ FlowBypassed
            /\ pc \in {"configShown", "configReset"} => exitCode = 0
            /\ pc = "configReset" => profile = NoUserConfig
            /\ pc = "resetFailed" => (exitCode = 1 /\ profile.exists))
    /\ [][(flags.config \/ flags.resetConfig) =>
            \/ profile' = profile
            \/ /\ flags.resetConfig /\ ~flags.config
               /\ profile.exists
               /\ profile' = NoUserConfig]_vars

C17_Witness ==
    /\ flags.resetConfig
    /\ ~flags.config
    /\ pc = "configReset"
    /\ exitCode = 0
    /\ profile = NoUserConfig
    /\ "success: Configuration reset successfully." \in log

----------------------------------------------------------------------------
(* generateScripts of the generator that fetches versions (part_004) *)

generateScripts_part004(c) ==
    LET ext == IF c.language = "typescript" THEN "ts" ELSE "js" IN
    (IF c.language = "typescript"
     THEN ("build" :> "tsup") @@ ("typecheck" :> "tsc --noEmit") ELSE <<>>)
    @@ (IF c.testRunner = "vitest"
        THEN ("test" :> "vitest run") @@ ("test:watch" :> "vitest")
             @@ ("test:coverage" :> "vitest run --coverage")
        ELSE IF c.testRunner = "jest"
        THEN ("test" :> "jest") @@ ("test:watch" :> "jest --watch")
             @@ ("test:coverage" :> "jest --coverage")
        ELSE <<>>)
    @@ (IF c.useLinting
        THEN ("lint" :> ("eslint . --ext ." \o ext))
             @@ ("lint:fix" :> ("eslint . --ext ." \o ext \o " --fix"))
             @@ ("format" :> "prettier --write \"src/**/*.{ts,js,json,md}\"")
             @@ ("format:check" :> "prettier --check \"src/**/*.{ts,js,json,md}\"")
        ELSE <<>>)
    @@ (IF c.language = "typescript"
        THEN ("check:exports" :> "attw --pack") ELSE <<>>)
    @@ (IF c.language = "typescript"
        THEN ("prepublishOnly" :> "npm run build") ELSE <<>>)
    @@ (IF c.useDependabot
        THEN ("sync" :> "git pull --rebase && npm install && npm test")
             @@ ("sync:quick" :> "git pull --rebase && npm install")
        ELSE <<>>)
    @@ (IF c.setupCD
        THEN ("preversion" :> "npm run build && npm test")
             @@ ("release" :> "node scripts/release.mjs")
        ELSE <<>>)

InitScripts ==
    /\ pc = "scripts"
    /\ Fresh
    /\ typed = <<>>
    /\ config \in GenConfigs
    /\ flags = [f \in FlagNames |-> FALSE]
    /\ argName = <<>>
    /\ profile = NoUserConfig

\* scripts: generateScripts(config), the scripts member of the manifest
GenerateScripts ==
    /\ pc = "scripts"
    /\ pkg' = ("scripts" :> generateScripts_part004(config))
    /\ pc' = "scripted"
    /\ UNCHANGED <<cmdVars, nameVars, targetExists, config, metaVars,
                   shouldInstall, asked, profile, files, listed, contents,
                   lookupVars,
                   outcome, log, exitCode>>

NextScripts == GenerateScripts

SpecScripts == InitScripts /\ [][NextScripts]_vars

\* C19: scripts has test and test:watch exactly when a test runner is
\* selected, with the runner's own commands, and has test:coverage exactly
\* when CI is set up and a test runner is selected.
C19_TestScripts ==
    pc = "scripted" =>
      LET scripts == pkg["scripts"]
          runs == config.testRunner # "none"
      IN
      /\ ("test" \in DOMAIN scripts) <=> runs
      /\ ("test:watch" \in DOMAIN scripts) <=> runs
      /\ config.testRunner = "vitest" =>
           (scripts["test"] = "vitest run" /\ scripts["test:watch"] = "vitest")
      /\ config.testRunner = "jest" =>
           (scripts["test"] = "jest" /\ scripts["test:watch"] = "jest --watch")
      /\ ("test:coverage" \in DOMAIN scripts) <=> (config.setupCI /\ runs)

\* C20: with useChangesets the manifest of generatePackageJson has
\* scripts.release = 'changeset publish' and a devDependencies entry for
\* @changesets/cli.
C20_ChangesetsInManifest ==
    (pc = "generated" /\ config.useChangesets) =>
      /\ "release" \in DOMAIN pkg["scripts"]
      /\ pkg["scripts"]["release"] = "changeset publish"
      /\ "@changesets/cli" \in DOMAIN pkg["devDependencies"]

----------------------------------------------------------------------------
(* The author string and the repository fields of the manifest *)

C22_RepositoryFieldsAsGroup ==
    pc = "generated" =>
      LET group == {"repository", "bugs", "homepage"} IN
      IF Truthy(config.githubUsername)
      THEN /\ group \subseteq DOMAIN pkg
           /\ pkg["repository"] =
                [type |-> "git",
                 url |-> [base |-> "https://github.com/",
                          user |-> config.githubUsername,
                          package |-> config.packageName, suffix |-> ".git"]]
           /\ pkg["bugs"].url.suffix = "/issues"
           /\ pkg["bugs"].url.user = config.githubUsername
           /\ pkg["homepage"].suffix = "#readme"
           /\ pkg["homepage"].user = config.githubUsername
      ELSE group \cap DOMAIN pkg = {}

C22_Witness ==
    /\ pc = "generated"
    /\ Truthy(config.githubUsername)
    /\ ~Truthy(config.author)
    /\ config.language = "javascript"
    /\ {"repository", "bugs", "homepage"} \subseteq DOMAIN pkg

----------------------------------------------------------------------------
(* The text generators on their own, with the manifest of the same config *)

TextsOf(c) ==
    [generateCIWorkflow |-> generateCIWorkflow(c),
     generateCDWorkflow |-> generateCDWorkflow(c),
     publishWorkflow |-> publishWorkflow,
     generateTsupConfig |-> generateTsupConfig(c),
     generateRootIndexJs |-> generateRootIndexJs(c),
     generateRootIndexMjs |-> generateRootIndexMjs(c)]

InitTexts ==
    /\ pc = "texts"
    /\ Fresh
    /\ typed = <<>>
    /\ config \in GenConfigs
    /\ flags = [f \in FlagNames |-> FALSE]
    /\ argName = <<>>
    /\ profile = NoUserConfig

GenerateTexts ==
    /\ pc = "texts"
    /\ contents' = TextsOf(config)
    /\ pkg' = generatePackageJson(config)
    /\ pc' = "textsGenerated"
    /\ UNCHANGED <<lookupVars, cmdVars, nameVars, targetExists, config, metaVars,
                   shouldInstall, asked, profile, files, listed, outcome, log,
                   exitCode>>

NextTexts == GenerateTexts

SpecTexts == InitTexts /\ [][NextTexts]_vars

\* the `run:` lines and the `uses:` lines of a workflow
Runs(w) == {w.steps[i].run : i \in 1..Len(w.steps)} \ {""}
Uses(w) == {w.steps[i].uses : i \in 1..Len(w.steps)} \ {""}

\* C23: the CI workflow has the type-check step exactly for TypeScript,
\* the lint step exactly with linting, the test step exactly with a test
\* runner, the Codecov upload step exactly with a test runner and
\* useCodecov, and the Node matrix [18, 20, 22] for every configuration.
C23_CIWorkflowSteps ==
    pc = "textsGenerated" =>
      LET ci == contents.generateCIWorkflow IN
      /\ ("npm run typecheck" \in Runs(ci)) <=> (config.language = "typescript")
      /\ ("npm run lint" \in Runs(ci)) <=> config.useLinting
      /\ ("npm test" \in Runs(ci)) <=> (config.testRunner # "none")
      /\ ("codecov/codecov-action@v4" \in Uses(ci))
           <=> (config.testRunner # "none" /\ config.useCodecov)
      /\ ci.matrix = <<"18", "20", "22">>

\* C24: the format list of tsup.config.ts is [cjs] for commonjs, [esm] for
\* esm and [cjs, esm] in that order for dual, so it has cjs exactly for
\* commonjs and dual and esm exactly for esm and dual.
C24_TsupFormats ==
    pc = "textsGenerated" =>
      LET format == contents.generateTsupConfig.format IN
      /\ ("cjs" \in Range(format)) <=> (config.moduleType \in {"commonjs", "dual"})
      /\ ("esm" \in Range(format)) <=> (config.moduleType \in {"esm", "dual"})
      /\ config.moduleType = "commonjs" => format = <<"cjs">>
      /\ config.moduleType = "esm" => format = <<"esm">>
      /\ config.moduleType = "dual" => format = <<"cjs", "esm">>

C24_Witness ==
    /\ pc = "textsGenerated"
    /\ config.moduleType = "dual"
    /\ config.language = "typescript"
    /\ contents.generateTsupConfig.format = <<"cjs", "esm">>

----------------------------------------------------------------------------
(* generateDevDependencies of the generator that fetches versions         *)
(* (part_004). fetchLatestVersions lives in versionFetcher.js, which is   *)
(* not among the sources: it is modelled by its interface, a Map from     *)
(* package name to { version, warning? } that may lack a package.         *)

\* most packages of one lookup whose result is not a clean version
MaxLookupFaults == 2

packagesToFetch(c) ==
    (IF c.language = "typescript"
     THEN <<"typescript", "tsup", "@types/node", "@arethetypeswrong/cli">>
     ELSE <<>>)
    \o (IF c.testRunner = "vitest"
        THEN <<"vitest">>
             \o (IF c.setupCI THEN <<"@vitest/coverage-v8">> ELSE <<>>)
        ELSE IF c.testRunner = "jest"
        THEN <<"jest">>
             \o (IF c.language = "typescript"
                 THEN <<"ts-jest", "@types/jest">> ELSE <<>>)
        ELSE <<>>)
    \o (IF c.useLinting
        THEN (IF c.language = "typescript"
              THEN <<"@typescript-eslint/eslint-plugin",
                     "@typescript-eslint/parser">>
              ELSE <<>>)
             \o <<"eslint", "prettier", "eslint-config-prettier">>
        ELSE <<>>)
    \o (IF c.setupCD THEN <<"@clack/prompts">> ELSE <<>>)

LatestVersion(p) == "^latest of " \o p
WarningFor(p) == "Could not fetch the latest version of " \o p

\* the Maps the lookup may return for `packages`: per package a version, a
\* version with a warning, or no entry
fetchLatestVersions(packages) ==
    LET names == Range(packages)
        Faults == {f \in SUBSET names : Cardinality(f) <= MaxLookupFaults}
        Map(missing, warned) ==
          [p \in names \ missing |->
             [version |-> LatestVersion(p),
              warning |-> IF p \in warned THEN WarningFor(p) ELSE Undefined]]
    IN UNION {{Map(missing, faulty \ missing) : missing \in SUBSET faulty} :
              faulty \in Faults}

generateDevDependencies_part004(c, map) ==
    LET fetched == SelectSeq(packagesToFetch(c), LAMBDA p : p \in DOMAIN map)
        warned == SelectSeq(fetched, LAMBDA p : Truthy(map[p].warning))
    IN [devDependencies |-> [p \in Range(fetched) |-> map[p].version],
        warnings |-> [i \in 1..Len(warned) |-> map[warned[i]].warning]]

DepConfigs ==
    {c \in GenConfigs :
        /\ c.moduleType = "dual"
        /\ ~c.useChangesets /\ ~c.useCodecov /\ ~c.useDependabot
        /\ c.description = Undefined /\ c.author = Undefined
        /\ c.authorEmail = Undefined /\ c.githubUsername = Undefined}

InitDeps ==
    /\ pc = "deps"
    /\ Fresh
    /\ typed = <<>>
    /\ config \in DepConfigs
    /\ flags = [f \in FlagNames |-> FALSE]
    /\ argName = <<>>
    /\ profile = NoUserConfig

\* const versionMap = await fetchLatestVersions(packagesToFetch);
\* return { devDependencies: deps, warnings }
GenerateDevDependencies ==
    /\ pc = "deps"
    /\ \E map \in fetchLatestVersions(packagesToFetch(config)) :
         LET result == generateDevDependencies_part004(config, map) IN
         /\ versionMap' = map
         /\ pkg' = ("devDependencies" :> result.devDependencies)
         /\ warnings' = result.warnings
    /\ pc' = "depsDone"
    /\ UNCHANGED <<cmdVars, nameVars, targetExists, config, metaVars,
                   shouldInstall, asked, profile, files, listed, contents,
                   outcome, log, exitCode>>

NextDeps == GenerateDevDependencies

SpecDeps == InitDeps /\ [][NextDeps]_vars

\* C25: after generateDevDependencies every package the configuration
\* requires is pinned in devDependencies or has its warning in the returned
\* warnings; a package the lookup has nothing for leaves the pins of the
\* other packages in place; every warning of the lookup is returned.
C25_LookupDegradesPerPackage ==
    pc = "depsDone" =>
      LET required == Range(packagesToFetch(config))
          deps == pkg["devDependencies"]
      IN
      /\ \A p \in required :
           p \in DOMAIN deps \/ WarningFor(p) \in Range(warnings)
      /\ \A p \in required \cap DOMAIN versionMap :
           p \in DOMAIN deps /\ deps[p] = versionMap[p].version
      /\ \A p \in DOMAIN versionMap :
           Truthy(versionMap[p].warning) =>
             versionMap[p].warning \in Range(warnings)

----------------------------------------------------------------------------
(* The module format and the order of the questions *)

\* C26: the module format of the run is 'dual' from the moment it is set,
\* with --yes and with any answers, the resolved ProjectConfig and the
\* manifest written from it included; no module-format question is asked.
C26_ModuleTypeAlwaysDual ==
    /\ config.moduleType \in {"unset", "dual"}
    /\ Resolved => config.moduleType = "dual"
    /\ "testRunner" \in Range(asked) => config.moduleType = "dual"
    /\ "moduleType" \notin Range(asked)
    /\ "package.json" \in files =>
         pkg["type"] = "module" /\ pkg["main"] \in
           {JsonString("./index.js"), JsonString("./src/index.js")}

C26_Witness ==
    /\ pc = "done"
    /\ ~flags.yes
    /\ config.language = "javascript"
    /\ config.moduleType = "dual"
    /\ "package.json" \in files

\* position of the first time prompt p was issued
Pos(p) == CHOOSE i \in 1..Len(asked) :
            asked[i] = p /\ \A j \in 1..(i - 1) : asked[j] # p

\* prompt q, when issued, comes after prompt p
AskedAfter(q, p) ==
    q \in Range(asked) => p \in Range(asked) /\ Pos(p) < Pos(q)

\* C27: the CD, Codecov and Dependabot questions are never asked in a run
\* whose CI answer is no, the Codecov question never in a run without a
\* test runner, and a question comes after those it depends on: test
\* runner before CI, CI before CD, Codecov and Dependabot.
C27_QuestionsFollowDependencies ==
    LET afterCI == {"setupCD", "useCodecov", "useDependabot"} IN
    /\ (pc # "askCI" /\ ~config.setupCI) => afterCI \cap Range(asked) = {}
    /\ "useCodecov" \in Range(asked) => config.testRunner # "none"
    /\ AskedAfter("setupCI", "testRunner")
    /\ \A q \in afterCI : AskedAfter(q, "setupCI")
    /\ \A q \in afterCI \cup {"setupCI", "testRunner"} : TimesAsked(q) <= 1

C27_Witness ==
    /\ pc = "done"
    /\ config.testRunner = "none"
    /\ config.setupCI
    /\ "useDependabot" \in Range(asked)
    /\ "useCodecov" \notin Range(asked)

----------------------------------------------------------------------------
(* Step 8 of the CLI that still had changesets (part_001): up to two      *)
(* post-install tasks, each an async function whose body is wrapped in    *)
(* try/catch, joined with Promise.allSettled, then Step 9.                *)

\* postInstallTasks, in the order they are pushed
postInstallTasks(c, install) ==
    IF install
    THEN (IF c.initGit THEN <<"git">> ELSE <<>>)
         \o (IF c.useChangesets THEN <<"changesets">> ELSE <<>>)
    ELSE <<>>

\* what results.forEach logs for a settled task
Reported(task, result) ==
    IF result = "ok" THEN "success: " \o task \o " initialized"
    ELSE "warn: Failed to initialize " \o task

PostInstallConfigs ==
    {[DefaultConfig(SampleLib, "npm") EXCEPT
        !.language = l, !.testRunner = t, !.initGit = g, !.useChangesets = u] :
       l \in Languages, t \in TestRunners, g \in BOOLEAN, u \in BOOLEAN}

InitPostInstall ==
    /\ pc = "gitTask"
    /\ config \in PostInstallConfigs
    /\ flags \in {f \in AllFlags : \A n \in FlagNames \ {"skipInstall"} : ~f[n]}
    /\ shouldInstall = ~flags.skipInstall
    /\ finalPackageName = SampleLib
    /\ nameError = Undefined
    /\ targetExists = "no"
    /\ shouldSaveConfig = FALSE
    /\ storedConfig = NoUserConfig
    /\ gitConfig = NoGitConfig
    /\ asked = <<>>
    /\ files = Written(config, Len(createProjectPaths(config)))
    /\ listed = <<>>
    /\ pkg = generatePackageJson(config)
    /\ contents = ContentsOf(config, files)
    /\ versionMap = <<>>
    /\ warnings = <<>>
    /\ \E done \in {"ok", "failed"} :
         outcome = [NoOutcome EXCEPT
                      !["createProject"] = "ok",
                      !["install"] = IF shouldInstall THEN done ELSE "none"]
    /\ log = {}
    /\ userAgent = {}
    /\ exitCode = Running
    /\ typed = <<>>
    /\ argName = SampleLib
    /\ profile = NoUserConfig

\* the async function pushed for `task`: execSync inside try/catch
RunTask(task, from, to) ==
    /\ pc = from
    /\ IF task \in Range(postInstallTasks(config, shouldInstall))
       THEN \E ok \in BOOLEAN :
              outcome' = [outcome EXCEPT
                            ![task] = IF ok THEN "ok" ELSE "failed"]
       ELSE UNCHANGED outcome
    /\ pc' = to
    /\ UNCHANGED <<cmdVars, nameVars, targetExists, config, metaVars,
                   shouldInstall, asked, profile, files, listed, pkg,
                   contents, lookupVars, log, exitCode>>

GitTask == RunTask("git", "gitTask", "changesetsTask")

ChangesetsTask == RunTask("changesets", "changesetsTask", "allSettled")

\* only the first failed task is reported and the others are dropped, as
\* with a Promise.all join
AllSettled_firstFailureOnly ==
    /\ pc = "allSettled"
    /\ LET tasks == postInstallTasks(config, shouldInstall)
           failed == {i \in 1..Len(tasks) : outcome[tasks[i]] = "failed"}
       IN log' = log \cup
            (IF failed = {}
             THEN {Reported(tasks[i], outcome[tasks[i]]) : i \in 1..Len(tasks)}
             ELSE {Reported(tasks[CHOOSE i \in failed : \A j \in failed : i <= j],
                            "failed")})
    /\ pc' = "verify"
    /\ UNCHANGED <<cmdVars, nameVars, targetExists, config, metaVars,
                   shouldInstall, asked, profile, files, listed, pkg,
                   contents, lookupVars, outcome, exitCode>>

\* await Promise.allSettled(postInstallTasks), then results.forEach
AllSettled ==
    /\ pc = "allSettled"
    /\ LET tasks == postInstallTasks(config, shouldInstall) IN
       log' = log \cup
              {Reported(tasks[i], outcome[tasks[i]]) : i \in 1..Len(tasks)}
    /\ pc' = "verify"
    /\ UNCHANGED <<cmdVars, nameVars, targetExists, config, metaVars,
                   shouldInstall, asked, profile, files, listed, pkg,
                   contents, lookupVars, outcome, exitCode>>

NextPostInstall == GitTask \/ ChangesetsTask \/ AllSettled \/ Verify

SpecPostInstall == InitPostInstall /\ [][NextPostInstall]_vars

\* C28: once the join is passed every launched task has settled and has
\* exactly one report, the one of its own result, whatever the result of
\* the other task; a task that was not launched has no result and no
\* report; build verification has a result only after the join.
C28_SettleAllJoin ==
    LET launched == Range(postInstallTasks(config, shouldInstall)) IN
    /\ pc \in {"verify", "save"} =>
         \A t \in launched :
           /\ outcome[t] \in {"ok", "failed"}
           /\ Reported(t, outcome[t]) \in log
           /\ Reported(t, IF outcome[t] = "ok" THEN "failed" ELSE "ok")
                \notin log
    /\ \A t \in {"git", "changesets"} \ launched :
         /\ outcome[t] = "none"
         /\ Reported(t, "ok") \notin log /\ Reported(t, "failed") \notin log
    /\ outcome["build"] # "none" =>
         /\ pc = "save"
         /\ \A t \in launched : Reported(t, outcome[t]) \in log

C28_Witness ==
    /\ pc = "save"
    /\ outcome["git"] = "failed"
    /\ outcome["changesets"] = "ok"
    /\ outcome["build"] = "ok"
    /\ Reported("git", "failed") \in log
    /\ Reported("changesets", "ok") \in log

----------------------------------------------------------------------------
(* The written workflows against the written manifest, and the root       *)
(* index files against the manifest's type                                *)

\* the npm script a `run:` line invokes
ScriptInvoked ==
    ("npm run typecheck" :> "typecheck") @@ ("npm run lint" :> "lint")
    @@ ("npm test" :> "test") @@ ("npm run build" :> "build")
    @@ ("npm run test:all" :> "test:all")

WorkflowPaths == {".github/workflows/ci.yml", ".github/workflows/publish.yml"}

\* C29: every npm script invoked by a step of a written workflow (ci.yml,
\* publish.yml), and of the CD workflow generated for the same config, is
\* a script of the manifest generated for that config.
C29_WorkflowScriptsDefined ==
    pc = "written" =>
      LET written == {contents[p] : p \in DOMAIN contents \cap WorkflowPaths}
          workflows == written \cup (IF config.setupCD
                                     THEN {generateCDWorkflow(config)} ELSE {})
      IN \A w \in workflows :
           \A r \in Runs(w) \cap DOMAIN ScriptInvoked :
             /\ ScriptInvoked[r] \in DOMAIN pkg["scripts"]
             /\ ScriptInvoked[r] \in DOMAIN generateScripts_part004(config)

\* a root index file is CommonJS when it assigns module.exports from
\* require, ESM when it has export ... from statements
IsCommonJS(text) ==
    \E i \in 1..Len(text) :
      text[i] \in {"module.exports = require('./dist/index.js');",
                   "module.exports.default = require('./dist/index.js').default;"}

IsESM(text) ==
    \E i \in 1..Len(text) :
      text[i] \in {"export * from './dist/index.js';",
                   "export { default } from './dist/index.js';",
                   "export * from './dist/index.mjs';",
                   "export { default } from './dist/index.mjs';"}

\* how Node loads a root file of a package with this `type`: .mjs is always
\* ESM, .js follows the manifest
LoadedAs(path, type) ==
    IF path = "./index.mjs" THEN "esm"
    ELSE IF type = "commonjs" THEN "commonjs" ELSE "esm"

\* the written file an exports target names
Target(path) == IF path = "./index.mjs" THEN "index.mjs" ELSE "index.js"

\* C30: for a TypeScript configuration the written index.js is CommonJS
\* only under manifest type 'commonjs' and ESM only under type 'module';
\* the file the require condition names is a CommonJS file and is loaded
\* as one, the file the import condition names is an ESM file and is
\* loaded as one.
C30_RootIndexMatchesManifestType ==
    (pc = "written" /\ config.language = "typescript") =>
      LET conditions == RootExport.conditions
          type == pkg["type"]
      IN
      /\ IsCommonJS(contents["index.js"]) => type = "commonjs"
      /\ IsESM(contents["index.js"]) => type = "module"
      /\ "require" \in DOMAIN conditions =>
           /\ IsCommonJS(contents[Target(conditions["require"])])
           /\ LoadedAs(conditions["require"], type) = "commonjs"
      /\ "import" \in DOMAIN conditions =>
           /\ IsESM(contents[Target(conditions["import"])])
           /\ LoadedAs(conditions["import"], type) = "esm"

====
